---- MODULE Spec2Model ----
(***************************************************************************)
(* Model of pystarport's command line orchestrator (pystarport/cli.py):    *)
(* init, start and serve, the data directory they work on, the supervised  *)
(* process group and the log tailer they drive.                            *)
(*                                                                         *)
(* cli.py is modelled statement by statement.  init_cluster, start_cluster,*)
(* the supervisor handle and the tailer thread live in pystarport/cluster  *)
(* and are modelled from the specification (sections 4.3, 4.5, 4.6).       *)
(***************************************************************************)
EXTENDS Integers, Sequences, FiniteSets, TLC

\* ---------------------------------------------------------------- bounds
NumNodes == 2      \* validator nodes of the topology
MaxRuns == 3       \* command line invocations in one behaviour
MaxSignals == 2    \* signals delivered to one orchestrator process
QueueCap == 1      \* capacity of the tailer's bounded queue

Nodes == 1..NumNodes
Procs == {1, 2}
Signals == {"SIGINT", "SIGTERM"}

VARIABLES
    dir,     \* the data directory: existence, state marker, artifacts
    lock,    \* holder of the initializer's exclusive lock, 0 when free
    ini,     \* per process: the frame of a running init() call
    run,     \* the frame of start(), the supervised group and the tailer
    twin,    \* a second start() on the same inputs, resume flipped
    cli,     \* the command line invocation in progress
    runs,    \* number of invocations so far
    trip,    \* progress along init(fresh), start, stop, init(resume)
    made     \* the directory as the last successful fresh init left it

vars == <<dir, lock, ini, run, twin, cli, runs, trip, made>>

\* ------------------------------------------------------ the data directory
\* A directory that does not exist.
NoDir ==
    [exists |-> FALSE, state |-> "NONE", keys |-> [n \in Nodes |-> 0],
     genesis |-> 0, desc |-> 0]

\* What `mkdir data` creates: an existing directory with nothing in it.
EmptyDir == [NoDir EXCEPT !.exists = TRUE]

\* Every node has its key, and the genesis artifact and the descriptor
\* were produced by the same initialization as the keys.
Complete(d) ==
    /\ d.exists
    /\ d.genesis # 0
    /\ d.desc = d.genesis
    /\ \A n \in Nodes : d.keys[n] = d.genesis

\* A directory as a successful fresh init with key material g leaves it.
PriorDir(g) ==
    [exists |-> TRUE, state |-> "INITIALIZED", keys |-> [n \in Nodes |-> g],
     genesis |-> g, desc |-> g]

\* ------------------------------------------------------------ init()
\* `if not resume:` first statement of init: a fresh call runs the removal,
\* a resuming call goes straight to init_cluster.
InitEntry_AlwaysRemove(resume) == "rm"

InitEntry_NeverRemove(resume) == "load"

InitEntry(resume) == IF ~resume THEN "rm" ELSE "load"

IdleInit ==
    [pc |-> "idle", resume |-> FALSE, valid |-> TRUE, result |-> "none",
     node |-> 1, gen |-> 0, rm |-> "none", snap |-> NoDir,
     mutated |-> FALSE]

\* The frame of init(data, config, ..., resume=r) on entry; v tells whether
\* the topology file is valid, g names the key material this call would
\* generate, d is the directory it finds.
NewInit(r, v, g, d) ==
    [IdleInit EXCEPT !.pc = InitEntry(r), !.resume = r, !.valid = v,
                     !.gen = g, !.snap = d]

\* `rm -r data` of the shell command line: removes the directory and all
\* it holds, or fails (no such directory, permission) and changes nothing.
\* ignore_error=True: either way init goes on.
InitRm(p) ==
    /\ ini[p].pc = "rm"
    /\ \E ok \in BOOLEAN :
        IF ok /\ dir.exists
        THEN /\ dir' = NoDir
             /\ ini' = [ini EXCEPT ![p].pc = "mkdir", ![p].rm = "ok",
                                   ![p].mutated = TRUE]
        ELSE /\ dir' = dir
             /\ ini' = [ini EXCEPT ![p].pc = "mkdir", ![p].rm = "failed"]
    /\ UNCHANGED <<lock, run, twin, cli, runs, trip, made>>

\* `mkdir data` of the same command line: creates the directory when it is
\* absent, fails when it is there; the error is ignored.
InitMkdir(p) ==
    /\ ini[p].pc = "mkdir"
    /\ IF dir.exists
       THEN /\ dir' = dir
            /\ ini' = [ini EXCEPT ![p].pc = "load"]
       ELSE /\ dir' = EmptyDir
            /\ ini' = [ini EXCEPT ![p].pc = "load", ![p].mutated = TRUE]
    /\ UNCHANGED <<lock, run, twin, cli, runs, trip, made>>

\* An init call that ends by raising or returning.
Finish(p, res) == [ini EXCEPT ![p].pc = "done", ![p].result = res]

\* init_cluster, ConfigModel.load: an invalid topology aborts before any
\* state is created.
ClusterLoad(p) ==
    /\ ini[p].pc = "load"
    /\ ini' = IF ini[p].valid
              THEN [ini EXCEPT ![p].pc = IF ini[p].resume THEN "verify"
                                                           ELSE "lock"]
              ELSE Finish(p, "ConfigError")
    /\ UNCHANGED <<dir, lock, run, twin, cli, runs, trip, made>>

\* init_cluster, fresh mode: take the exclusive lock or fail at once with
\* LockError.  The lock is kept apart from the directory's contents, so a
\* removal of the directory does not release it.  Taking it marks the
\* directory as being initialized.
ClusterLock(p) ==
    /\ ini[p].pc = "lock"
    /\ IF lock # 0
       THEN /\ ini' = Finish(p, "LockError")
            /\ UNCHANGED <<dir, lock>>
       ELSE IF ~dir.exists
       THEN /\ ini' = Finish(p, "NodeError")
            /\ UNCHANGED <<dir, lock>>
       ELSE /\ lock' = p
            /\ dir' = [dir EXCEPT !.state = "UNINITIALIZED"]
            /\ ini' = [ini EXCEPT ![p].pc = "node", ![p].node = 1,
                                  ![p].mutated = TRUE]
    /\ UNCHANGED <<run, twin, cli, runs, trip, made>>

\* init_cluster, fresh mode: one node's home directory, atomically: it is
\* fully populated with newly generated keys, or the call fails and names
\* the node, leaving the sibling nodes alone.
ClusterNode(p) ==
    /\ ini[p].pc = "node"
    /\ ini[p].node \in Nodes
    /\ \E ok \in BOOLEAN :
        IF ok /\ dir.exists
        THEN /\ dir' = [dir EXCEPT !.keys[ini[p].node] = ini[p].gen]
             /\ ini' = [ini EXCEPT ![p].node = @ + 1,
                                   ![p].pc = IF ini[p].node = NumNodes
                                             THEN "genesis" ELSE "node"]
             /\ lock' = lock
        ELSE /\ dir' = dir
             /\ ini' = Finish(p, "NodeError")
             /\ lock' = IF lock = p THEN 0 ELSE lock
    /\ UNCHANGED <<run, twin, cli, runs, trip, made>>

\* init_cluster, fresh mode: merge the nodes' fragments into the shared
\* genesis artifact and hand it to every node.
ClusterGenesis(p) ==
    /\ ini[p].pc = "genesis"
    /\ IF dir.exists
       THEN /\ dir' = [dir EXCEPT !.genesis = ini[p].gen]
            /\ ini' = [ini EXCEPT ![p].pc = "commit"]
            /\ lock' = lock
       ELSE /\ dir' = dir
            /\ ini' = Finish(p, "NodeError")
            /\ lock' = IF lock = p THEN 0 ELSE lock
    /\ UNCHANGED <<run, twin, cli, runs, trip, made>>

\* init_cluster, fresh mode: write the process descriptor, record
\* ClusterState = INITIALIZED, release the lock and return.
ClusterCommit(p) ==
    /\ ini[p].pc = "commit"
    /\ IF dir.exists
       THEN /\ dir' = [dir EXCEPT !.desc = ini[p].gen,
                                  !.state = "INITIALIZED"]
            /\ ini' = Finish(p, "INITIALIZED")
            /\ made' = dir'
       ELSE /\ dir' = dir
            /\ ini' = Finish(p, "NodeError")
            /\ made' = made
    /\ lock' = IF lock = p THEN 0 ELSE lock
    /\ UNCHANGED <<run, twin, cli, runs, trip>>

\* init_cluster, resume mode: check the recorded state and the artifacts,
\* generate nothing; ResumeError when something is missing or inconsistent.
ClusterVerify(p) ==
    /\ ini[p].pc = "verify"
    /\ ini' = IF dir.state = "INITIALIZED" /\ Complete(dir)
              THEN Finish(p, "INITIALIZED")
              ELSE Finish(p, "ResumeError")
    /\ UNCHANGED <<dir, lock, run, twin, cli, runs, trip, made>>

\* ------------------------------------------------------------ start()
\* The statements of start in program order.  Both tailer statements after
\* wait belong to one `if not quiet:`.
StartProgram_TailBeforeHandlers ==
    <<"start_cluster", "tail_start", "signal_SIGINT", "signal_SIGTERM",
      "wait", "tail_stop", "tail_join", "return">>

StartProgram_NoJoin ==
    <<"start_cluster", "signal_SIGINT", "signal_SIGTERM", "tail_start",
      "wait", "tail_stop", "return">>

StartProgram ==
    <<"start_cluster", "signal_SIGINT", "signal_SIGTERM", "tail_start",
      "wait", "tail_stop", "tail_join", "return">>

\* No start() is running; the group is in state g with a children alive.
IdleRun(g, a) ==
    [pc |-> 0, exit |-> "no", quiet |-> FALSE, resume |-> FALSE,
     handlers |-> {}, group |-> g, alive |-> a, tailer |-> "none",
     stopReq |-> FALSE, joined |-> FALSE, queue |-> 0, nsig |-> 0,
     req |-> FALSE, ops |-> <<>>]

\* The frame of start(data, quiet, resume) on entry, in a new process:
\* both signals have their default disposition.
NewStart(w, q, r) ==
    [IdleRun(w.group, w.alive) EXCEPT !.pc = 1, !.quiet = q, !.resume = r]

Stmt(w) == IF w.pc \in 1..Len(StartProgram) THEN StartProgram[w.pc] ELSE "none"

Did(w, op) == \E i \in 1..Len(w.ops) : w.ops[i] = op

Count(w, op) == Cardinality({i \in 1..Len(w.ops) : w.ops[i] = op})

Advance(w, op) == [w EXCEPT !.pc = @ + 1, !.ops = Append(@, op)]

\* supervisord = start_cluster(data): launches the supervised group from
\* the descriptor in the data directory, or raises when it cannot.
StartClusterOp(w, ready) ==
    IF ready
    THEN [Advance(w, "start_cluster") EXCEPT !.group = "running",
                                              !.alive = NumNodes]
    ELSE [w EXCEPT !.exit = "error"]

\* signal.signal(sig, lambda *args: supervisord.terminate())
RegisterOp(w, sig) ==
    [Advance(w, "signal") EXCEPT !.handlers = @ \cup {sig}]

\* if not quiet: tailer = start_tail_logs_thread(data)
TailStartOp_ResumeSkipsTail(w) ==
    IF w.quiet \/ w.resume THEN [w EXCEPT !.pc = @ + 1]
    ELSE [Advance(w, "tail_start") EXCEPT !.tailer = "running"]

TailStartOp(w) ==
    IF w.quiet THEN [w EXCEPT !.pc = @ + 1]
    ELSE [Advance(w, "tail_start") EXCEPT !.tailer = "running"]

\* supervisord.wait(): returns once the whole group has exited.
WaitOp(w) == Advance(w, "wait")

\* if not quiet: tailer.stop()
TailStopOp(w) ==
    IF w.quiet THEN [w EXCEPT !.pc = @ + 1]
    ELSE [Advance(w, "tail_stop") EXCEPT !.stopReq = TRUE]

\* tailer.join(), under the same `if not quiet:`
TailJoinOp(w) ==
    IF w.quiet THEN [w EXCEPT !.pc = @ + 1]
    ELSE [Advance(w, "tail_join") EXCEPT !.joined = TRUE]

\* start falls off its end and returns to its caller.
ReturnOp(w) == [w EXCEPT !.exit = "returned"]

\* supervisord.terminate(): asks the group to shut down; nothing to do
\* when it is already shutting down or gone.
TerminateOp(w) ==
    [w EXCEPT !.group = IF @ = "running" THEN "stopping" ELSE @,
              !.ops = Append(@, "terminate")]

\* The handler start registers: lambda *args: supervisord.terminate()
HandlerOp_OneShot(w) == [TerminateOp(w) EXCEPT !.handlers = {}]

HandlerOp(w) == TerminateOp(w)

\* A signal reaches the orchestrator process.  With start's handler
\* registered for it the handler runs; otherwise the default disposition
\* applies: SIGTERM ends the process, SIGINT raises KeyboardInterrupt,
\* which nothing in start catches.
SignalOp(w, sig) ==
    LET d == [w EXCEPT !.nsig = @ + 1,
                       !.req = @ \/ Did(w, "start_cluster")]
    IN  IF sig \in w.handlers THEN HandlerOp(d)
        ELSE [d EXCEPT !.exit = IF sig = "SIGTERM" THEN "killed"
                                                   ELSE "interrupt"]

SignalEn(w) == w.pc # 0 /\ w.exit = "no" /\ w.nsig < MaxSignals

\* The next statement of start can run: wait blocks until the group has
\* exited, join blocks until the tailer thread has finished.
TickEn(w) ==
    /\ Stmt(w) # "none"
    /\ w.exit = "no"
    /\ Stmt(w) = "wait" => w.group = "exited"
    /\ (Stmt(w) = "tail_join" /\ ~w.quiet) => w.tailer = "finished"

TickOp(w, ready) ==
    CASE Stmt(w) = "start_cluster"  -> StartClusterOp(w, ready)
      [] Stmt(w) = "signal_SIGINT"  -> RegisterOp(w, "SIGINT")
      [] Stmt(w) = "signal_SIGTERM" -> RegisterOp(w, "SIGTERM")
      [] Stmt(w) = "tail_start"     -> TailStartOp(w)
      [] Stmt(w) = "wait"           -> WaitOp(w)
      [] Stmt(w) = "tail_stop"      -> TailStopOp(w)
      [] Stmt(w) = "tail_join"      -> TailJoinOp(w)
      [] Stmt(w) = "return"         -> ReturnOp(w)
      [] OTHER                      -> w

\* ------------------------------------------- the supervised process group
\* `supervisorctl shutdown` through the passthrough of the CLI.
ShutdownEn(w) == w.group = "running"
ShutdownOp(w) == [w EXCEPT !.group = "stopping"]

\* One child exits cleanly after the request to stop.
ChildExitEn(w) == w.group = "stopping" /\ w.alive > 0
ChildExitOp(w) == [w EXCEPT !.alive = @ - 1]

\* The grace period is over: the children still running are killed.
GraceEn(w) == w.group = "stopping" /\ w.alive > 0
GraceOp(w) == [w EXCEPT !.alive = 0]

\* With no child left the supervisor itself exits.
GroupExitEn(w) == w.group = "stopping" /\ w.alive = 0
GroupExitOp(w) == [w EXCEPT !.group = "exited"]

\* ------------------------------------------------------------ the tailer
\* The tailer thread lives in the orchestrator process.
TailAlive(w) == w.tailer = "running" /\ w.exit \in {"no", "returned"}

\* Reads a line and puts it on the bounded queue; blocks while it is full.
TailReadEn(w) == TailAlive(w) /\ ~w.stopReq /\ w.queue < QueueCap
TailReadOp(w) == [w EXCEPT !.queue = @ + 1]

\* The consumer takes a line off the queue and prints it.
TailConsumeEn(w) == w.tailer # "none" /\ w.queue > 0 /\ w.exit = "no"
TailConsumeOp(w) == [w EXCEPT !.queue = @ - 1]

\* After stop() the thread leaves its loop, wherever it was.
TailFinishEn(w) == TailAlive(w) /\ w.stopReq
TailFinishOp(w) == [w EXCEPT !.tailer = "finished"]

\* ------------------------------------------------- steps of one start()
StartCluster ==
    /\ TickEn(run) /\ Stmt(run) = "start_cluster"
    /\ run' = StartClusterOp(run, dir.desc # 0)
    /\ UNCHANGED <<dir, lock, ini, twin, cli, runs, trip, made>>

RegisterSignal(sig) ==
    /\ TickEn(run) /\ Stmt(run) = "signal_" \o sig
    /\ run' = RegisterOp(run, sig)
    /\ UNCHANGED <<dir, lock, ini, twin, cli, runs, trip, made>>

TailStart ==
    /\ TickEn(run) /\ Stmt(run) = "tail_start"
    /\ run' = TailStartOp(run)
    /\ UNCHANGED <<dir, lock, ini, twin, cli, runs, trip, made>>

Wait ==
    /\ TickEn(run) /\ Stmt(run) = "wait"
    /\ run' = WaitOp(run)
    /\ UNCHANGED <<dir, lock, ini, twin, cli, runs, trip, made>>

TailStop ==
    /\ TickEn(run) /\ Stmt(run) = "tail_stop"
    /\ run' = TailStopOp(run)
    /\ UNCHANGED <<dir, lock, ini, twin, cli, runs, trip, made>>

TailJoin ==
    /\ TickEn(run) /\ Stmt(run) = "tail_join"
    /\ run' = TailJoinOp(run)
    /\ UNCHANGED <<dir, lock, ini, twin, cli, runs, trip, made>>

Return ==
    /\ TickEn(run) /\ Stmt(run) = "return"
    /\ run' = ReturnOp(run)
    /\ UNCHANGED <<dir, lock, ini, twin, cli, runs, trip, made>>

Signal(sig) ==
    /\ SignalEn(run)
    /\ run' = SignalOp(run, sig)
    /\ UNCHANGED <<dir, lock, ini, twin, cli, runs, trip, made>>

Shutdown ==
    /\ ShutdownEn(run)
    /\ run' = ShutdownOp(run)
    /\ UNCHANGED <<dir, lock, ini, twin, cli, runs, trip, made>>

ChildExit ==
    /\ ChildExitEn(run)
    /\ run' = ChildExitOp(run)
    /\ UNCHANGED <<dir, lock, ini, twin, cli, runs, trip, made>>

GraceExpired ==
    /\ GraceEn(run)
    /\ run' = GraceOp(run)
    /\ UNCHANGED <<dir, lock, ini, twin, cli, runs, trip, made>>

GroupExit ==
    /\ GroupExitEn(run)
    /\ run' = GroupExitOp(run)
    /\ UNCHANGED <<dir, lock, ini, twin, cli, runs, trip, made>>

TailRead ==
    /\ TailReadEn(run)
    /\ run' = TailReadOp(run)
    /\ UNCHANGED <<dir, lock, ini, twin, cli, runs, trip, made>>

TailConsume ==
    /\ TailConsumeEn(run)
    /\ run' = TailConsumeOp(run)
    /\ UNCHANGED <<dir, lock, ini, twin, cli, runs, trip, made>>

TailFinish ==
    /\ TailFinishEn(run)
    /\ run' = TailFinishOp(run)
    /\ UNCHANGED <<dir, lock, ini, twin, cli, runs, trip, made>>

\* ------------------------------------------------------ the command line
NoCli == [cmd |-> "none", resume |-> FALSE, quiet |-> FALSE]

\* serve: start(data, quiet) is reached only when init(...) has returned;
\* an exception of init leaves serve before start.
ServeProceeds_Always(res) == TRUE

ServeProceeds(res) == res = "INITIALIZED"

\* One of `pystarport init|start|serve` is run, in a new process, while no
\* supervised group of an earlier run is still up.  serve and CLI.init
\* pass their resume on to init, CLI.start passes it on to start.
Invoke(c, r, q, v) ==
    /\ cli.cmd = "none"
    /\ runs < MaxRuns
    /\ run.group \in {"none", "exited"}
    /\ cli' = [cmd |-> c, resume |-> r, quiet |-> q]
    /\ runs' = runs + 1
    /\ IF c = "start"
       THEN /\ run' = NewStart(run, q, r)
            /\ ini' = ini
       ELSE /\ ini' = [ini EXCEPT ![1] = NewInit(r, v, runs + 1, dir)]
            /\ run' = run
    /\ trip' = IF trip = 2 /\ c \in {"init", "serve"} /\ r /\ v THEN 3
               ELSE IF trip = 1 /\ c = "start" THEN 1
               ELSE 0
    /\ UNCHANGED <<dir, lock, twin, made>>

\* serve, after init has returned: start(data, quiet), resume not passed.
ServeStart ==
    /\ cli.cmd = "serve"
    /\ ini[1].pc = "done"
    /\ ServeProceeds(ini[1].result)
    /\ ini' = [ini EXCEPT ![1].pc = "returned"]
    /\ run' = NewStart(run, cli.quiet, FALSE)
    /\ UNCHANGED <<dir, lock, twin, cli, runs, trip, made>>

\* The orchestrator process is gone: init returned or raised, start
\* returned or raised, or a signal ended the process.  The supervised
\* group is a separate process and stays as it is.
CliDone ==
    \/ cli.cmd = "init" /\ ini[1].pc = "done"
    \/ cli.cmd = "serve" /\ ini[1].pc = "done"
                         /\ ~ServeProceeds(ini[1].result)
    \/ cli.cmd \in {"start", "serve"} /\ run.exit # "no"

Exit ==
    /\ CliDone
    /\ cli' = NoCli
    /\ ini' = [ini EXCEPT ![1] = IdleInit]
    /\ run' = IdleRun(run.group, run.alive)
    /\ trip' = CASE cli.cmd = "init" ->
                      IF ~cli.resume /\ ini[1].result = "INITIALIZED"
                      THEN 1 ELSE 0
                 [] cli.cmd = "start" ->
                      IF trip = 1 /\ Did(run, "start_cluster") THEN 2 ELSE 0
                 [] OTHER ->
                      IF ~cli.resume /\ Did(run, "start_cluster")
                      THEN 2 ELSE 0
    /\ UNCHANGED <<dir, lock, twin, runs, made>>

\* ------------------------------------------------------- specifications
\* One operator at a time runs the command line on a machine where the
\* data directory does not exist yet.
Init ==
    /\ dir = NoDir
    /\ lock = 0
    /\ ini = [p \in Procs |-> IdleInit]
    /\ run = IdleRun("none", 0)
    /\ twin = IdleRun("none", 0)
    /\ cli = NoCli
    /\ runs = 0
    /\ trip = 0
    /\ made = NoDir

Next ==
    \/ \E c \in {"init", "start", "serve"}, r, q, v \in BOOLEAN :
          /\ c = "init" => ~q
          /\ c = "start" => v
          /\ Invoke(c, r, q, v)
    \/ InitRm(1) \/ InitMkdir(1)
    \/ ClusterLoad(1) \/ ClusterLock(1) \/ ClusterNode(1)
    \/ ClusterGenesis(1) \/ ClusterCommit(1) \/ ClusterVerify(1)
    \/ ServeStart
    \/ Exit
    \/ StartCluster
    \/ \E sig \in Signals : RegisterSignal(sig)
    \/ TailStart \/ Wait \/ TailStop \/ TailJoin \/ Return
    \/ \E sig \in Signals : Signal(sig)
    \/ Shutdown \/ ChildExit \/ GraceExpired \/ GroupExit
    \/ TailRead \/ TailConsume \/ TailFinish

Spec == Init /\ [][Next]_vars

\* The scheduling the code relies on: a process that can run its next
\* statement does so, the grace period of a stopping group runs out, the
\* supervisor exits once its children are gone, the tailer thread sees the
\* stop flag.  Signals, the operator's commands and log lines may or may
\* not come.
Fairness ==
    /\ WF_vars(StartCluster)
    /\ WF_vars(\E sig \in Signals : RegisterSignal(sig))
    /\ WF_vars(TailStart) /\ WF_vars(Wait) /\ WF_vars(TailStop)
    /\ WF_vars(TailJoin) /\ WF_vars(Return)
    /\ WF_vars(GraceExpired) /\ WF_vars(GroupExit)
    /\ WF_vars(TailFinish)

\* One call of start on an initialized data directory, with nobody but
\* the signals to stop the group.
InitStart ==
    /\ dir = PriorDir(1)
    /\ lock = 0
    /\ ini = [p \in Procs |-> IdleInit]
    /\ \E q, r \in BOOLEAN :
        /\ run = NewStart(IdleRun("none", 0), q, r)
        /\ cli = [cmd |-> "start", resume |-> r, quiet |-> q]
    /\ twin = IdleRun("none", 0)
    /\ runs = 1
    /\ trip = 0
    /\ made = PriorDir(1)

NextStart ==
    \/ StartCluster
    \/ \E sig \in Signals : RegisterSignal(sig)
    \/ TailStart \/ Wait \/ TailStop \/ TailJoin \/ Return
    \/ \E sig \in Signals : Signal(sig)
    \/ ChildExit \/ GraceExpired \/ GroupExit
    \/ TailRead \/ TailConsume \/ TailFinish

LiveStart == InitStart /\ [][NextStart]_vars /\ Fairness

\* Two fresh init calls with a valid topology are in flight on the same
\* data directory, which is absent, empty or holds an earlier cluster.
InitConc ==
    /\ dir \in {NoDir, EmptyDir, PriorDir(3)}
    /\ lock = 0
    /\ ini = [p \in Procs |-> NewInit(FALSE, TRUE, p, dir)]
    /\ run = IdleRun("none", 0)
    /\ twin = IdleRun("none", 0)
    /\ cli = NoCli
    /\ runs = 0
    /\ trip = 0
    /\ made = NoDir

NextConc ==
    \E p \in Procs :
        \/ InitRm(p) \/ InitMkdir(p)
        \/ ClusterLoad(p) \/ ClusterLock(p) \/ ClusterNode(p)
        \/ ClusterGenesis(p) \/ ClusterCommit(p)

SpecConc == InitConc /\ [][NextConc]_vars

\* Two calls of start on the same data directory with the same quiet,
\* one with resume=True and one with resume=False, each in a world of its
\* own, see the same external events at the same moments.
InitPair ==
    /\ dir \in {NoDir, PriorDir(1)}
    /\ lock = 0
    /\ ini = [p \in Procs |-> IdleInit]
    /\ \E q, r \in BOOLEAN :
        /\ run = NewStart(IdleRun("none", 0), q, r)
        /\ twin = NewStart(IdleRun("none", 0), q, ~r)
        /\ cli = [cmd |-> "start", resume |-> r, quiet |-> q]
    /\ runs = 1
    /\ trip = 0
    /\ made = NoDir

\* One event in both worlds: each world that can take it takes it.
Both(enRun, enTwin, nextRun, nextTwin) ==
    /\ enRun \/ enTwin
    /\ run' = IF enRun THEN nextRun ELSE run
    /\ twin' = IF enTwin THEN nextTwin ELSE twin
    /\ UNCHANGED <<dir, lock, ini, cli, runs, trip, made>>

NextStmt(w) == TickOp(w, dir.desc # 0)

PairTick ==
    Both(TickEn(run), TickEn(twin), NextStmt(run), NextStmt(twin))

PairSignal(sig) ==
    Both(SignalEn(run), SignalEn(twin),
         SignalOp(run, sig), SignalOp(twin, sig))

PairShutdown ==
    Both(ShutdownEn(run), ShutdownEn(twin),
         ShutdownOp(run), ShutdownOp(twin))

PairChildExit ==
    Both(ChildExitEn(run), ChildExitEn(twin),
         ChildExitOp(run), ChildExitOp(twin))

PairGraceExpired ==
    Both(GraceEn(run), GraceEn(twin), GraceOp(run), GraceOp(twin))

PairGroupExit ==
    Both(GroupExitEn(run), GroupExitEn(twin),
         GroupExitOp(run), GroupExitOp(twin))

PairTailRead ==
    Both(TailReadEn(run), TailReadEn(twin),
         TailReadOp(run), TailReadOp(twin))

PairTailConsume ==
    Both(TailConsumeEn(run), TailConsumeEn(twin),
         TailConsumeOp(run), TailConsumeOp(twin))

PairTailFinish ==
    Both(TailFinishEn(run), TailFinishEn(twin),
         TailFinishOp(run), TailFinishOp(twin))

NextPair ==
    \/ PairTick
    \/ \E sig \in Signals : PairSignal(sig)
    \/ PairShutdown \/ PairChildExit \/ PairGraceExpired \/ PairGroupExit
    \/ PairTailRead \/ PairTailConsume \/ PairTailFinish

SpecPair == InitPair /\ [][NextPair]_vars

\* ---------------------------------------------------------------- claims
Other(p) == CHOOSE o \in Procs : o # p

\* What a delivery leaves apart from the bookkeeping of deliveries.
Outcome(w) == [w EXCEPT !.nsig = 0, !.req = FALSE, !.ops = <<>>]

\* C1: a SIGINT or SIGTERM delivered to the orchestrator after
\* start_cluster has returned is answered by supervisord.terminate()
\* before the orchestrator exits: the orchestrator never exits on such a
\* signal without a terminate having been issued.
C1_SignalTerminatesBeforeExit ==
    (run.req /\ run.exit # "no") => Did(run, "terminate")

\* C2: of two fresh init calls in flight on one data directory exactly one
\* returns INITIALIZED, the other fails with LockError and has not changed
\* the directory, and the directory is what the successful call made.
C2_ExactlyOneFreshInit ==
    /\ \A p \in Procs :
          ini[p].result = "LockError" => ~ini[p].mutated
    /\ (\A p \in Procs : ini[p].pc = "done") =>
          \E p \in Procs :
              /\ ini[p].result = "INITIALIZED"
              /\ ini[Other(p)].result = "LockError"
              /\ dir = PriorDir(ini[p].gen)

\* C3: along init(fresh), start, stop, init(resume), and along
\* serve(fresh), stop, serve(resume), with the topology unchanged, the
\* resuming call runs no removal and writes nothing, the keys, genesis and
\* descriptor stay those the fresh init produced, and the call returns
\* INITIALIZED.
C3_ResumeRoundTrip ==
    trip = 3 =>
        /\ dir = made
        /\ Complete(made)
        /\ ini[1].rm = "none"
        /\ ~ini[1].mutated
        /\ ini[1].pc \in {"done", "returned"} =>
              /\ ini[1].result = "INITIALIZED"
              /\ dir.state = "INITIALIZED"

C3_Witness ==
    /\ trip = 3
    /\ cli.cmd = "init"
    /\ ini[1].pc = "done"
    /\ made.genesis # 0

C5_ResumeHasNoEffectOnStart ==
    [run EXCEPT !.resume = FALSE] = [twin EXCEPT !.resume = FALSE]

C5_Witness ==
    /\ run.resume # twin.resume
    /\ ~run.quiet
    /\ run.nsig > 0
    /\ run.exit = "returned"
    /\ twin.exit = "returned"

\* C6: a termination request after the group was launched leads to the
\* group having exited, wait having returned and start having returned,
\* with the tailer stopped and joined when quiet is False.
C6_TerminationRequestReturns ==
    run.req ~> (run.exit = "returned" /\ run.group = "exited"
                /\ run.tailer # "running")

\* C7: a delivery of a signal whose handler start has installed neither
\* ends nor moves the orchestrator, whatever start is doing, a further delivery changes
\* nothing that the first has not changed, the handlers stay installed,
\* and a start that returns has the group exited and the tailer joined
\* however many deliveries there were.
C7_ShutdownIdempotent ==
    /\ (run.pc # 0 /\ run.exit = "no") =>
          \A s1, s2 \in run.handlers :
              LET w1 == SignalOp(run, s1)
                  w2 == SignalOp(w1, s2)
              IN  /\ w1.exit = "no" /\ w2.exit = "no"
                  /\ w1.pc = run.pc
                  /\ w1.handlers = run.handlers
                  /\ w1.group = IF run.group = "running" THEN "stopping"
                                                        ELSE run.group
                  /\ Outcome(w2) = Outcome(w1)
    /\ run.exit = "returned" =>
          /\ run.group = "exited"
          /\ run.quiet \/ (run.tailer = "finished" /\ run.joined)

C7_Witness ==
    /\ run.exit = "returned"
    /\ Count(run, "terminate") >= 2
    /\ \E i, j \in 1..Len(run.ops) :
          i < j /\ run.ops[i] = "wait" /\ run.ops[j] = "terminate"

\* C8: a tailer exists only when quiet is False and only after the group
\* was launched; it finishes only after stop; stop is issued only after
\* wait has returned; start returns only with the tailer finished and
\* joined; with quiet True there is never a tailer, a stop or a join.
C8_TailerLifecycle ==
    /\ run.tailer # "none" => ~run.quiet /\ Did(run, "start_cluster")
    /\ run.quiet => run.tailer = "none" /\ ~run.stopReq /\ ~run.joined
    /\ run.tailer = "finished" => run.stopReq
    /\ run.stopReq => Did(run, "wait") /\ run.group = "exited"
    /\ run.joined => run.tailer = "finished"
    /\ run.exit = "returned" =>
          /\ run.tailer # "running"
          /\ ~run.quiet => run.tailer = "finished" /\ run.joined

C8_Witness ==
    /\ run.exit = "returned"
    /\ ~run.quiet
    /\ run.joined
    /\ Did(run, "tail_start")

\* C9: whenever the tailer exists and the orchestrator is alive, whether
\* the tailer is reading or blocked on its full queue, either signal
\* reaches start's handler: terminate is issued, a running group starts
\* to shut down, and the orchestrator goes on.
C9_TailerNeverBlocksTerminate ==
    (run.tailer # "none" /\ run.exit = "no") =>
        \A sig \in Signals :
            LET w == SignalOp(run, sig)
            IN  /\ w.exit = "no"
                /\ Count(w, "terminate") = Count(run, "terminate") + 1
                /\ run.group = "running" => w.group = "stopping"

C9_Witness ==
    /\ run.tailer = "running"
    /\ run.queue = QueueCap
    /\ Stmt(run) = "wait"
    /\ Did(run, "terminate")
    /\ run.group = "stopping"

====
